---- MODULE Spec2Model ----
(***************************************************************************)
(* A model of the city traffic model: a street network as a weighted       *)
(* digraph (Intersection, Street, StreetNetwork), cars that move through   *)
(* the FIFO queues of the streets (Car), Dijkstra routing (shortest_path)  *)
(* and the square lattice constructor (square_lattice).                    *)
(*                                                                         *)
(* Objects are identified as follows.  An Intersection is identified by    *)
(* its label (a string, or the pair <<i, j>> of a lattice node).  Street   *)
(* objects and Car objects are numbered in the order of their              *)
(* construction: street[s] holds the fields of the s-th Street, q[s] its   *)
(* queue, and location[c], path[c] the fields of the c-th Car.             *)
(***************************************************************************)
EXTENDS Integers, Sequences, FiniteSets, TLC

VARIABLES
    network,     \* the StreetNetwork object: its fields
    network2,    \* a second StreetNetwork object, whose lists may hold the
                 \* same Intersection and Street objects: its fields
    outstreets,  \* Intersection.outstreets, by intersection
    instreets,   \* Intersection.instreets, by intersection
    street,      \* the Street objects: tail, head, weight, label
    q,           \* Street.q.queue, by street
    location,    \* Car.location, by car
    path,        \* Car.path, by car
    thread,      \* the calls of move() and cut_street() that have begun and
                 \* not ended: the line each has reached, and its locals
    moved,       \* by car, the number of its calls of move() that have
                 \* returned, counted up to len(path) + 1
    result       \* the last call: its name, its arguments, the exception
                 \* it raised ("None" when it returned) and what it returned

vars == <<network, network2, outstreets, instreets, street, q, location, path,
          thread, moved, result>>

-----------------------------------------------------------------------------
(* Bounds of the model. *)

\* The number of path entries the cars hold altogether (the sum of the lengths
\* of the paths of the cars created).
MaxPathEntries == 3

\* The number of Street objects constructed on the intersections A, B, C in
\* the routing specification, and the largest weight of one.
MaxStreets == 3

MaxWeight == 1

-----------------------------------------------------------------------------
(* Python values and list operations. *)

\* Python's None as the value of Car.location (streets are numbered from 1).
None == 0

\* x in seq
Contains(seq, x) == \E i \in DOMAIN seq : seq[i] = x

\* seq.index(x), counted from 1; 0 when x is not in seq (Python raises
\* ValueError there).
IndexOf(seq, x) ==
    IF Contains(seq, x)
    THEN CHOOSE i \in DOMAIN seq :
            /\ seq[i] = x
            /\ \A k \in 1..(i-1) : seq[k] # x
    ELSE 0

\* seq.remove(x): the list without the first occurrence of x.
Remove(seq, x) ==
    LET i == IndexOf(seq, x)
    IN  SubSeq(seq, 1, i-1) \o SubSeq(seq, i+1, Len(seq))

\* The number of occurrences of x in seq.
Count(seq, x) == Cardinality({i \in DOMAIN seq : seq[i] = x})

Streets == DOMAIN street

Cars == DOMAIN location

Intersections == DOMAIN outstreets

\* The record kept of the last call.
Returned(op, arg, ret) == [op |-> op, arg |-> arg, err |-> "None", ret |-> ret]

Raised(op, arg, err) == [op |-> op, arg |-> arg, err |-> err, ret |-> <<>>]

\* No call of move() or cut_street() is between two of its lines.
NoCalls ==
    [move |-> [pc |-> "idle", car |-> 0, next_street |-> 0],
     cut  |-> [pc |-> "idle", street |-> 0]]

-----------------------------------------------------------------------------
(* Street.__init__ and the named constructors of StreetNetwork. *)

\* The objects reachable from the intersections, as one record.
Heap == [outstreets |-> outstreets, instreets |-> instreets,
         street |-> street, q |-> q]

NoIntersections(labels) ==
    [outstreets |-> [n \in labels |-> <<>>],
     instreets  |-> [n \in labels |-> <<>>],
     street     |-> <<>>,
     q          |-> <<>>]

\* A list of Street constructions, in order; each is
\* <<tail, head, weight, label>>.  The k-th new Street is numbered
\* Len(h.street) + k; each is appended to its tail's outstreets and to its
\* head's instreets when it is constructed, so each list receives its new
\* streets in the order of their construction.
StreetInits(h, specs) ==
    LET news == [k \in 1..Len(specs) |-> Len(h.street) + k]
        spec(s) == specs[s - Len(h.street)]
    IN  [street     |-> h.street \o [k \in 1..Len(specs) |->
                            [tail |-> specs[k][1], head |-> specs[k][2],
                             weight |-> specs[k][3], label |-> specs[k][4]]],
         q          |-> h.q \o [k \in 1..Len(specs) |-> <<>>],
         outstreets |-> [n \in DOMAIN h.outstreets |->
                            h.outstreets[n] \o SelectSeq(news, LAMBDA s : spec(s)[1] = n)],
         instreets  |-> [n \in DOMAIN h.instreets |->
                            h.instreets[n] \o SelectSeq(news, LAMBDA s : spec(s)[2] = n)]]

\* Street(tail, head, weight, label)
StreetInit(h, tail, head, weight, label) ==
    StreetInits(h, << <<tail, head, weight, label>> >>)

\* StreetNetwork.__init__
StreetNetwork(intersections, streets, cars, lattice, north, east, south, west) ==
    [intersections |-> intersections, streets |-> streets, cars |-> cars,
     lattice |-> lattice, north_streets |-> north, east_streets |-> east,
     south_streets |-> south, west_streets |-> west]

\* StreetNetwork.no_cars; the lattice fields are None, written <<>>.
no_cars(intersections, streets) ==
    StreetNetwork(intersections, streets, <<>>, <<>>, <<>>, <<>>, <<>>, <<>>)

\* StreetNetwork.empty
empty == StreetNetwork(<<>>, <<>>, <<>>, <<>>, <<>>, <<>>, <<>>, <<>>)

-----------------------------------------------------------------------------
(* The simple network of the tests:  A --> B <==> C  *)

AB == 1
BC == 2
CB == 3

SimpleHeap ==
    StreetInits(NoIntersections({"A", "B", "C"}),
                << <<"A", "B", 1, <<>>>>, <<"B", "C", 1, <<>>>>, <<"C", "B", 1, <<>>>> >>)

Init ==
    /\ network = no_cars(<<"A", "B", "C">>, <<AB, BC, CB>>)
    /\ network2 = empty
    /\ outstreets = SimpleHeap.outstreets
    /\ instreets = SimpleHeap.instreets
    /\ street = SimpleHeap.street
    /\ q = SimpleHeap.q
    /\ location = <<>>
    /\ path = <<>>
    /\ moved = <<>>
    /\ thread = NoCalls
    /\ result = Returned("no_cars", <<>>, <<>>)

-----------------------------------------------------------------------------
(* StreetNetwork.cut_street *)

\* `street.q.empty` as the code reads it: the bound method Queue.empty, which
\* is never called; a method object is true.
q_empty(s) == TRUE

\* cut_street without its third removal: the street stays in the instreets of
\* its head.
CutStreetKeepsInstreets(s) ==
    /\ s \in Streets
    /\ Contains(network.streets, s)
    /\ Contains(outstreets[street[s].tail], s)
    /\ network' = [network EXCEPT !.streets = Remove(@, s)]
    /\ outstreets' = [outstreets EXCEPT ![street[s].tail] = Remove(@, s)]
    /\ result' = Returned("cut_street", s, <<>>)
    /\ UNCHANGED <<thread, network2, instreets, street, q, location, path, moved>>

CutStreet(s) ==
    /\ s \in Streets
    /\ UNCHANGED <<thread, network2, street, q, location, path, moved>>
    /\ IF ~ q_empty(s)
       THEN /\ result' = Raised("cut_street", s, "CannotCutStreetError")
            /\ UNCHANGED <<network, outstreets, instreets>>
       ELSE IF ~ Contains(network.streets, s)
       THEN /\ result' = Raised("cut_street", s, "ValueError")
            /\ UNCHANGED <<network, outstreets, instreets>>
       ELSE /\ network' = [network EXCEPT !.streets = Remove(@, s)]
            /\ IF ~ Contains(outstreets[street[s].tail], s)
               THEN /\ result' = Raised("cut_street", s, "ValueError")
                    /\ UNCHANGED <<outstreets, instreets>>
               ELSE /\ outstreets' = [outstreets EXCEPT ![street[s].tail] = Remove(@, s)]
                    /\ IF ~ Contains(instreets[street[s].head], s)
                       THEN /\ result' = Raised("cut_street", s, "ValueError")
                            /\ UNCHANGED instreets
                       ELSE /\ instreets' = [instreets EXCEPT ![street[s].head] = Remove(@, s)]
                            /\ result' = Returned("cut_street", s, <<>>)

\* network2.cut_street(s): the same method, called on the second network.
CutStreet2(s) ==
    /\ s \in Streets
    /\ UNCHANGED <<thread, network, street, q, location, path, moved>>
    /\ IF ~ q_empty(s)
       THEN /\ result' = Raised("network2.cut_street", s, "CannotCutStreetError")
            /\ UNCHANGED <<network2, outstreets, instreets>>
       ELSE IF ~ Contains(network2.streets, s)
       THEN /\ result' = Raised("network2.cut_street", s, "ValueError")
            /\ UNCHANGED <<network2, outstreets, instreets>>
       ELSE /\ network2' = [network2 EXCEPT !.streets = Remove(@, s)]
            /\ IF ~ Contains(outstreets[street[s].tail], s)
               THEN /\ result' = Raised("network2.cut_street", s, "ValueError")
                    /\ UNCHANGED <<outstreets, instreets>>
               ELSE /\ outstreets' = [outstreets EXCEPT ![street[s].tail] = Remove(@, s)]
                    /\ IF ~ Contains(instreets[street[s].head], s)
                       THEN /\ result' = Raised("network2.cut_street", s, "ValueError")
                            /\ UNCHANGED instreets
                       ELSE /\ instreets' = [instreets EXCEPT ![street[s].head] = Remove(@, s)]
                            /\ result' = Returned("network2.cut_street", s, <<>>)

-----------------------------------------------------------------------------
(* Car *)

\* The paths a car is created with: every non-empty list of streets,
\* connected or not, with or without a street twice, cut or not, as long as
\* the cars hold at most MaxPathEntries path entries.
RECURSIVE PathsOfLen(_)
PathsOfLen(n) ==
    IF n = 0 THEN {<<>>}
    ELSE {Append(p, s) : p \in PathsOfLen(n-1), s \in Streets}

RECURSIVE PathEntries(_)
PathEntries(ps) == IF ps = <<>> THEN 0 ELSE Len(ps[1]) + PathEntries(Tail(ps))

Paths == UNION {PathsOfLen(n) : n \in 1..(MaxPathEntries - PathEntries(path))}

\* Car.__init__ putting the car at the front of the queue.
NewCarAtFront(p) ==
    /\ LET c == Len(location) + 1
       IN  /\ location' = Append(location, p[1])
           /\ path' = Append(path, p)
           /\ moved' = Append(moved, 0)
           /\ q' = [q EXCEPT ![p[1]] = <<c>> \o @]
           /\ network' = [network EXCEPT !.cars = Append(@, c)]
           /\ result' = Returned("Car", c, <<>>)
    /\ UNCHANGED <<thread, network2, outstreets, instreets, street>>

\* Car.__init__
NewCar(p) ==
    /\ LET c == Len(location) + 1
       IN  /\ location' = Append(location, p[1])
           /\ path' = Append(path, p)
           /\ moved' = Append(moved, 0)
           /\ q' = [q EXCEPT ![p[1]] = Append(@, c)]
           /\ network' = [network EXCEPT !.cars = Append(@, c)]
           /\ result' = Returned("Car", c, <<>>)
    /\ UNCHANGED <<thread, network2, outstreets, instreets, street>>

\* index of the next street in the car's path, counted from 1
\* (path.index(location) + 1 counted from 0 is the same number counted from 1
\* plus one); 0 when location is not in the path.
\* The index after the next one.
NextIndexSkipping(c) ==
    IF Contains(path[c], location[c]) THEN IndexOf(path[c], location[c]) + 2 ELSE 0

NextIndex(c) ==
    IF Contains(path[c], location[c]) THEN IndexOf(path[c], location[c]) + 1 ELSE 0

\* The car is on the last street of its path, as move() decides it.
AtLastStreet(c) == NextIndex(c) > Len(path[c])

next_street(c) == path[c][NextIndex(c)]

\* move() without the check of the front of the queue.
MoveOutcomeNoFrontCheck(c) ==
    IF NextIndex(c) = 0 THEN "ValueError"
    ELSE IF AtLastStreet(c)
         THEN IF q[location[c]] = <<>> THEN "blocks" ELSE "arrive"
    ELSE IF ~ Contains(outstreets[street[location[c]].head], next_street(c))
         THEN "DisconnectedPathError"
    ELSE IF q[location[c]] = <<>> THEN "blocks"
    ELSE "advance"

\* move() without the check that the next street leaves the head.
MoveOutcomeNoConnectivityCheck(c) ==
    IF NextIndex(c) = 0 THEN "ValueError"
    ELSE IF AtLastStreet(c)
         THEN IF q[location[c]] = <<>> THEN "blocks" ELSE "arrive"
    ELSE IF q[location[c]] = <<>> THEN "IndexError"
    ELSE IF c # Head(q[location[c]]) THEN "NotAtFrontOfQueueError"
    ELSE "advance"

\* move() with its two checks in the other order: the front of the queue,
\* then the connectivity.
MoveOutcomeFrontCheckFirst(c) ==
    IF NextIndex(c) = 0 THEN "ValueError"
    ELSE IF AtLastStreet(c)
         THEN IF q[location[c]] = <<>> THEN "blocks" ELSE "arrive"
    ELSE IF q[location[c]] = <<>> THEN "IndexError"
    ELSE IF c # Head(q[location[c]]) THEN "NotAtFrontOfQueueError"
    ELSE IF ~ Contains(outstreets[street[location[c]].head], next_street(c))
         THEN "DisconnectedPathError"
    ELSE "advance"

\* What move() does, decided in the order of the code: the exception it
\* raises, or "arrive" / "advance".  "blocks" is Queue.get() on an empty queue,
\* which never returns.
MoveOutcome(c) ==
    IF NextIndex(c) = 0 THEN "ValueError"
    ELSE IF AtLastStreet(c)
         THEN IF q[location[c]] = <<>> THEN "blocks" ELSE "arrive"
    ELSE IF ~ Contains(outstreets[street[location[c]].head], next_street(c))
         THEN "DisconnectedPathError"
    ELSE IF q[location[c]] = <<>> THEN "IndexError"
    ELSE IF c # Head(q[location[c]]) THEN "NotAtFrontOfQueueError"
    ELSE "advance"

\* One more call of move() by the car has returned: the count of these calls,
\* which stops at len(path) + 1.
Counted(c) == IF moved[c] <= Len(path[c]) THEN moved[c] + 1 ELSE moved[c]

\* move() that leaves the location of a car that arrives as it is.
MoveKeepsLocation(c) ==
    /\ c \in Cars
    /\ UNCHANGED <<thread, network2, outstreets, instreets, street, path>>
    /\ LET outcome == MoveOutcome(c)
           l == location[c]
       IN  CASE outcome = "arrive" ->
                  /\ q' = [q EXCEPT ![l] = Tail(@)]
                  /\ UNCHANGED location
                  /\ IF Contains(network.cars, c)
                     THEN /\ network' = [network EXCEPT !.cars = Remove(@, c)]
                          /\ moved' = [moved EXCEPT ![c] = Counted(c)]
                          /\ result' = Returned("move", c, <<>>)
                     ELSE /\ UNCHANGED <<network, moved>>
                          /\ result' = Raised("move", c, "ValueError")
             [] outcome = "advance" ->
                  /\ q' = LET got == [q EXCEPT ![l] = Tail(@)]
                          IN  [got EXCEPT ![next_street(c)] = Append(@, c)]
                  /\ location' = [location EXCEPT ![c] = next_street(c)]
                  /\ moved' = [moved EXCEPT ![c] = Counted(c)]
                  /\ result' = Returned("move", c, <<>>)
                  /\ UNCHANGED network
             [] OTHER ->
                  /\ result' = Raised("move", c, outcome)
                  /\ UNCHANGED <<network, q, location, moved>>

\* Car.move
Move(c) ==
    /\ c \in Cars
    /\ UNCHANGED <<thread, network2, outstreets, instreets, street, path>>
    /\ LET outcome == MoveOutcome(c)
           l == location[c]
       IN  CASE outcome = "arrive" ->
                  /\ q' = [q EXCEPT ![l] = Tail(@)]
                  /\ location' = [location EXCEPT ![c] = None]
                  /\ IF Contains(network.cars, c)
                     THEN /\ network' = [network EXCEPT !.cars = Remove(@, c)]
                          /\ moved' = [moved EXCEPT ![c] = Counted(c)]
                          /\ result' = Returned("move", c, <<>>)
                     ELSE /\ UNCHANGED <<network, moved>>
                          /\ result' = Raised("move", c, "ValueError")
             [] outcome = "advance" ->
                  /\ q' = LET got == [q EXCEPT ![l] = Tail(@)]
                          IN  [got EXCEPT ![next_street(c)] = Append(@, c)]
                  /\ location' = [location EXCEPT ![c] = next_street(c)]
                  /\ moved' = [moved EXCEPT ![c] = Counted(c)]
                  /\ result' = Returned("move", c, <<>>)
                  /\ UNCHANGED network
             [] OTHER ->
                  /\ result' = Raised("move", c, outcome)
                  /\ UNCHANGED <<network, q, location, moved>>

-----------------------------------------------------------------------------
(* StreetNetwork.shortest_path *)

\* float('inf')
Inf == -1

\* a < b and a + w on numbers that may be float('inf')
Less(a, b) == a # Inf /\ (b = Inf \/ a < b)

Plus(a, w) == IF a = Inf THEN Inf ELSE a + w

\* min(nodes) without the key: here, the first node of the list.
MinNodeWithoutKey(nodes, distance) == nodes[1]

\* min(nodes, key=distance.get): the first node of the list among those of
\* least distance.
MinNode(nodes, distance) ==
    nodes[CHOOSE i \in DOMAIN nodes :
            /\ \A k \in DOMAIN nodes : ~ Less(distance[nodes[k]], distance[nodes[i]])
            /\ \A k \in 1..(i-1) : Less(distance[nodes[i]], distance[nodes[k]])]

\* The initial labels: distance 0 for the source, inf for the others, no
\* previous step.
InitialLabel(source) ==
    [distance      |-> [n \in Intersections |-> IF n = source THEN 0 ELSE Inf],
     previous_step |-> [n \in Intersections |-> None]]

\* `if alternative <= distance[neighbor]`
ImprovesOrTies(alternative, current) == ~ Less(current, alternative)

\* `if alternative < distance[neighbor]`
Improves(alternative, current) == Less(alternative, current)

\* The loop over node.outstreets, in the order of the list.
RECURSIVE Relax(_, _, _)
Relax(label, node, outs) ==
    IF outs = <<>> THEN label
    ELSE LET outstreet == outs[1]
             neighbor == street[outstreet].head
             alternative == Plus(label.distance[node], street[outstreet].weight)
         IN  Relax(IF Improves(alternative, label.distance[neighbor])
                   THEN [distance |-> [label.distance EXCEPT ![neighbor] = alternative],
                         previous_step |-> [label.previous_step EXCEPT ![neighbor] = outstreet]]
                   ELSE label,
                   node, Tail(outs))

\* The `while True` loop: label the nodes until the destination is selected.
RECURSIVE LabelNodes(_, _, _)
LabelNodes(nodes, label, destination) ==
    LET node == MinNode(nodes, label.distance)
    IN  IF node = destination THEN label
        ELSE LabelNodes(Remove(nodes, node),
                        Relax(label, node, outstreets[node]),
                        destination)

\* Backtrack from the destination along the previous steps.
RECURSIVE BacktrackAppending(_, _, _)

RECURSIVE Backtrack(_, _, _)
\* The backtracking with path.append(street) for path.insert(0, street).
BacktrackAppending(node, previous_step, p) ==
    IF previous_step[node] = None THEN p
    ELSE BacktrackAppending(street[previous_step[node]].tail, previous_step,
                            p \o <<previous_step[node]>>)

Backtrack(node, previous_step, p) ==
    IF previous_step[node] = None THEN p
    ELSE Backtrack(street[previous_step[node]].tail, previous_step,
                   <<previous_step[node]>> \o p)

\* The path built by shortest_path; [] where the code raises
\* DisconnectedPathError.
BuiltPath(source, destination) ==
    Backtrack(destination,
              LabelNodes(network.intersections, InitialLabel(source),
                         destination).previous_step,
              <<>>)

ShortestPath(source, destination) ==
    /\ source \in Intersections
    /\ destination \in Intersections
    /\ \E p \in {BuiltPath(source, destination)} :
          result' = IF p = <<>>
                    THEN Raised("shortest_path", <<source, destination>>,
                                "DisconnectedPathError")
                    ELSE Returned("shortest_path", <<source, destination>>, p)
    /\ UNCHANGED <<thread, network, network2, outstreets, instreets, street, q, location,
                    path, moved>>

-----------------------------------------------------------------------------
(* Routing on the graphs of at most MaxStreets streets on A, B, C, none *)
(* from an intersection to itself.                                    *)

\* CH = Street(C, H, 17); network.streets.append(CH)
AddStreet(tail, head, weight) ==
    /\ LET h == StreetInit(Heap, tail, head, weight, <<>>)
       IN  /\ street' = h.street
           /\ q' = h.q
           /\ outstreets' = h.outstreets
           /\ instreets' = h.instreets
    /\ network' = [network EXCEPT !.streets = Append(@, Len(street) + 1)]
    /\ result' = Returned("Street", Len(street) + 1, <<>>)
    /\ UNCHANGED <<thread, network2, location, path, moved>>

InitRoute ==
    /\ network = no_cars(<<"A", "B", "C">>, <<>>)
    /\ network2 = empty
    /\ outstreets = NoIntersections({"A", "B", "C"}).outstreets
    /\ instreets = NoIntersections({"A", "B", "C"}).instreets
    /\ street = <<>>
    /\ q = <<>>
    /\ location = <<>>
    /\ path = <<>>
    /\ moved = <<>>
    /\ thread = NoCalls
    /\ result = Returned("no_cars", <<>>, <<>>)

\* The streets are constructed tail by tail, in the order of
\* network.intersections: shortest_path reads the streets through the
\* outstreets of their tails only, and the order of each of these lists is the
\* order of construction of the streets of one tail.
TailByTail(tail) ==
    IF street = <<>> THEN TRUE
    ELSE IndexOf(network.intersections, street[Len(street)].tail)
            <= IndexOf(network.intersections, tail)

NextRoute ==
    \/ \E tail \in Intersections, head \in Intersections, weight \in 0..MaxWeight :
          /\ Len(street) < MaxStreets
          /\ tail # head
          /\ TailByTail(tail)
          /\ AddStreet(tail, head, weight)
    \/ \E source \in Intersections, destination \in Intersections :
          ShortestPath(source, destination)

SpecRoute == InitRoute /\ [][NextRoute]_vars

-----------------------------------------------------------------------------
(* Routing on the 8-node graph of test_shortest_path, with CH cut and      *)
(* constructed again as the test does.                                     *)

\* The Street constructions of the test, in order.
TestEdges ==
    << <<"A", "B", 9, <<>>>>,  <<"B", "C", 24, <<>>>>, <<"D", "E", 30, <<>>>>,
       <<"E", "F", 11, <<>>>>, <<"G", "H", 44, <<>>>>, <<"A", "G", 15, <<>>>>,
       <<"A", "D", 14, <<>>>>, <<"D", "G", 5, <<>>>>,  <<"D", "C", 18, <<>>>>,
       <<"C", "E", 2, <<>>>>,  <<"F", "C", 6, <<>>>>,  <<"C", "H", 19, <<>>>>,
       <<"G", "E", 20, <<>>>>, <<"E", "H", 16, <<>>>>, <<"F", "H", 6, <<>>>> >>

TestNodes == <<"A", "B", "C", "D", "E", "F", "G", "H">>

TestHeap ==
    StreetInits(NoIntersections({TestNodes[i] : i \in DOMAIN TestNodes}), TestEdges)

\* The weights the test gives the new CH.
TestWeights == {17, 18}

\* The number of streets the test constructs: the 15 of the graph and CH twice more.
TestStreets == 17

InitTest ==
    /\ network = no_cars(TestNodes, [i \in DOMAIN TestEdges |-> i])
    /\ network2 = empty
    /\ outstreets = TestHeap.outstreets
    /\ instreets = TestHeap.instreets
    /\ street = TestHeap.street
    /\ q = TestHeap.q
    /\ location = <<>>
    /\ path = <<>>
    /\ moved = <<>>
    /\ thread = NoCalls
    /\ result = Returned("no_cars", <<>>, <<>>)

\* The streets of the network from tail to head.
StreetsBetween(tail, head) ==
    {s \in Streets : /\ Contains(network.streets, s)
                     /\ street[s].tail = tail
                     /\ street[s].head = head}

NextTest ==
    \/ \E s \in StreetsBetween("C", "H") : CutStreet(s)
    \/ \E weight \in TestWeights :
          /\ StreetsBetween("C", "H") = {}
          /\ Len(street) < TestStreets
          /\ AddStreet("C", "H", weight)
    \/ \E source \in Intersections, destination \in Intersections :
          ShortestPath(source, destination)

SpecTest == InitTest /\ [][NextTest]_vars

-----------------------------------------------------------------------------
(* Two networks over the simple network, as in test_contruct_simple_network: *)
(* streets are constructed and cut through either network, and cars are      *)
(* placed on the streets.                                                    *)

\* At most MaxCutStreets streets are constructed, the three of the simple
\* network among them: a street that has been cut is constructed again, as
\* CH is in test_shortest_path.  One car is created, on any street, as in
\* test_contruct_simple_network.
MaxCutStreets == 4

\* network1 is made by no_cars and network2 by empty() and appends; both list
\* A, B, C and AB, BC, CB.
InitCut ==
    /\ network = no_cars(<<"A", "B", "C">>, <<AB, BC, CB>>)
    /\ network2 = [empty EXCEPT !.intersections = <<"A", "B", "C">>,
                                !.streets = <<AB, BC, CB>>]
    /\ outstreets = SimpleHeap.outstreets
    /\ instreets = SimpleHeap.instreets
    /\ street = SimpleHeap.street
    /\ q = SimpleHeap.q
    /\ location = <<>>
    /\ path = <<>>
    /\ moved = <<>>
    /\ thread = NoCalls
    /\ result = Returned("no_cars", <<>>, <<>>)

NextCut ==
    \/ \E s \in Streets : CutStreet(s)
    \/ \E s \in Streets : CutStreet2(s)
    \/ \E s \in Streets :
          /\ Len(street) < MaxCutStreets
          /\ \A t \in Streets :
                (street[t].tail = street[s].tail /\ street[t].head = street[s].head)
                   => ~ Contains(outstreets[street[t].tail], t)
          /\ AddStreet(street[s].tail, street[s].head, 1)
    \/ \E s \in Streets :
          /\ location = <<>>
          /\ NewCar(<<s>>)

SpecCut == InitCut /\ [][NextCut]_vars

-----------------------------------------------------------------------------
(* Cars on routes through the graph of test_shortest_path.                    *)

\* The routes have at most MaxTourLen streets.
MaxTourLen == 5

\* The street t leaves the intersection that the street s enters.
Follows(s, t) == street[t].tail = street[s].head

\* The lists of n streets, each following the one before.
RECURSIVE WalksOfLen(_)

WalksOfLen(n) ==
    IF n = 1 THEN {<<s>> : s \in Streets}
    ELSE UNION {{Append(p, t) : t \in {t \in Streets : Follows(p[Len(p)], t)}} :
                    p \in WalksOfLen(n - 1)}

Walks == UNION {WalksOfLen(n) : n \in 1..MaxTourLen}

\* A car is created, with any route, then a second one that has one street
\* to go, and they are moved.
NextTour ==
    \/ /\ location = <<>>
       /\ \E p \in Walks : NewCar(p)
    \/ /\ Len(location) = 1
       /\ \E s \in Streets : NewCar(<<s>>)
    \/ \E c \in Cars : Move(c)

SpecTour == InitTest /\ [][NextTour]_vars

-----------------------------------------------------------------------------
(* Cars on the paths that shortest_path returns, in the graphs of at most    *)
(* MaxStreets streets on A, B, C and in the graph of test_shortest_path; the *)
(* path is found and the car created before the car moves, the graph does   *)
(* not change once there is a car, and there is one car.                    *)

InitTrip == InitRoute \/ InitTest

\* car = Car(network.shortest_path(source, destination), network)
NextTrip ==
    \/ /\ location = <<>>
       /\ Len(street) < MaxStreets
       /\ \E tail \in Intersections, head \in Intersections, weight \in 0..MaxWeight :
             /\ tail # head
             /\ TailByTail(tail)
             /\ AddStreet(tail, head, weight)
    \/ /\ location = <<>>
       /\ \E source \in Intersections, destination \in Intersections :
             ShortestPath(source, destination)
    \/ /\ location = <<>>
       /\ result.op = "shortest_path"
       /\ result.err = "None"
       /\ NewCar(result.ret)
    \/ \E c \in Cars : Move(c)

SpecTrip == InitTrip /\ [][NextTrip]_vars

-----------------------------------------------------------------------------
(* One thread in Car.move and one in StreetNetwork.cut_street on the simple  *)
(* network.  Neither method takes a lock: a step is one read or one write of *)
(* a list, a queue or a field that the other thread can reach.  The cars are *)
(* created before the threads start, and cut_street is called with a street  *)
(* that cars reach by move() only.                                           *)

Moving(pc, c, s) ==
    [thread EXCEPT !.move = [pc |-> pc, car |-> c, next_street |-> s]]

Cutting(pc, s) == [thread EXCEPT !.cut = [pc |-> pc, street |-> s]]

MoveEnded == [thread EXCEPT !.move = NoCalls.move]

CutEnded == [thread EXCEPT !.cut = NoCalls.cut]

\* The street is later than first on the path of a car and first on none.
ReachedByMoveOnly(s) ==
    /\ \E c \in Cars : Contains(Tail(path[c]), s)
    /\ \A c \in Cars : path[c][1] # s

\* index = self.path.index(self.location) + 1, the test of index against
\* len(self.path), next_street = self.path[index]
MoveIndex(c) ==
    /\ thread.move.pc = "idle"
    /\ c \in Cars
    /\ UNCHANGED <<network, network2, outstreets, instreets, street, q, location,
                   path, moved>>
    /\ IF NextIndex(c) = 0
       THEN /\ result' = Raised("move", c, "ValueError")
            /\ UNCHANGED thread
       ELSE /\ thread' = IF AtLastStreet(c) THEN Moving("264", c, None)
                         ELSE Moving("270", c, next_street(c))
            /\ UNCHANGED result

\* if next_street not in self.location.head.outstreets: raise
MoveConnectivity ==
    /\ thread.move.pc = "270"
    /\ UNCHANGED <<network, network2, outstreets, instreets, street, q, location,
                   path, moved>>
    /\ LET c == thread.move.car
       IN  IF ~ Contains(outstreets[street[location[c]].head], thread.move.next_street)
           THEN /\ result' = Raised("move", c, "DisconnectedPathError")
                /\ thread' = MoveEnded
           ELSE /\ thread' = Moving("275", c, thread.move.next_street)
                /\ UNCHANGED result

\* if self != self.location.q.queue[0]: raise
MoveFront ==
    /\ thread.move.pc = "275"
    /\ UNCHANGED <<network, network2, outstreets, instreets, street, q, location,
                   path, moved>>
    /\ LET c == thread.move.car
       IN  IF q[location[c]] = <<>>
           THEN /\ result' = Raised("move", c, "IndexError")
                /\ thread' = MoveEnded
           ELSE IF c # Head(q[location[c]])
           THEN /\ result' = Raised("move", c, "NotAtFrontOfQueueError")
                /\ thread' = MoveEnded
           ELSE /\ thread' = Moving("280", c, thread.move.next_street)
                /\ UNCHANGED result

\* self.location.q.get(), of line 264 and of line 280: it waits while the
\* queue is empty.
MoveGet ==
    /\ thread.move.pc \in {"264", "280"}
    /\ q[location[thread.move.car]] # <<>>
    /\ q' = [q EXCEPT ![location[thread.move.car]] = Tail(@)]
    /\ thread' = Moving(IF thread.move.pc = "264" THEN "265" ELSE "281",
                        thread.move.car, thread.move.next_street)
    /\ UNCHANGED <<network, network2, outstreets, instreets, street, location, path,
                   moved, result>>

\* next_street.q.put(self)
MovePut ==
    /\ thread.move.pc = "281"
    /\ q' = [q EXCEPT ![thread.move.next_street] = Append(@, thread.move.car)]
    /\ thread' = Moving("282", thread.move.car, thread.move.next_street)
    /\ UNCHANGED <<network, network2, outstreets, instreets, street, location, path,
                   moved, result>>

\* self.location = next_street, and move() returns
MoveLocation ==
    /\ thread.move.pc = "282"
    /\ location' = [location EXCEPT ![thread.move.car] = thread.move.next_street]
    /\ moved' = [moved EXCEPT ![thread.move.car] = Counted(thread.move.car)]
    /\ result' = Returned("move", thread.move.car, <<>>)
    /\ thread' = MoveEnded
    /\ UNCHANGED <<network, network2, outstreets, instreets, street, q, path>>

\* self.location = None
MoveLocationNone ==
    /\ thread.move.pc = "265"
    /\ location' = [location EXCEPT ![thread.move.car] = None]
    /\ thread' = Moving("266", thread.move.car, None)
    /\ UNCHANGED <<network, network2, outstreets, instreets, street, q, path, moved,
                   result>>

\* self.network.cars.remove(self); return
MoveCarsRemove ==
    /\ thread.move.pc = "266"
    /\ thread' = MoveEnded
    /\ UNCHANGED <<network2, outstreets, instreets, street, q, location, path>>
    /\ LET c == thread.move.car
       IN  IF Contains(network.cars, c)
           THEN /\ network' = [network EXCEPT !.cars = Remove(@, c)]
                /\ moved' = [moved EXCEPT ![c] = Counted(c)]
                /\ result' = Returned("move", c, <<>>)
           ELSE /\ result' = Raised("move", c, "ValueError")
                /\ UNCHANGED <<network, moved>>

\* if not street.q.empty: raise
CutGuard(s) ==
    /\ thread.cut.pc = "idle"
    /\ s \in Streets
    /\ ReachedByMoveOnly(s)
    /\ UNCHANGED <<network, network2, outstreets, instreets, street, q, location,
                   path, moved>>
    /\ IF ~ q_empty(s)
       THEN /\ result' = Raised("cut_street", s, "CannotCutStreetError")
            /\ UNCHANGED thread
       ELSE /\ thread' = Cutting("135", s)
            /\ UNCHANGED result

\* self.streets.remove(street)
CutStreets ==
    /\ thread.cut.pc = "135"
    /\ UNCHANGED <<network2, outstreets, instreets, street, q, location, path, moved>>
    /\ LET s == thread.cut.street
       IN  IF ~ Contains(network.streets, s)
           THEN /\ result' = Raised("cut_street", s, "ValueError")
                /\ thread' = CutEnded
                /\ UNCHANGED network
           ELSE /\ network' = [network EXCEPT !.streets = Remove(@, s)]
                /\ thread' = Cutting("136", s)
                /\ UNCHANGED result

\* street.tail.outstreets.remove(street)
CutOutstreets ==
    /\ thread.cut.pc = "136"
    /\ UNCHANGED <<network, network2, instreets, street, q, location, path, moved>>
    /\ LET s == thread.cut.street
       IN  IF ~ Contains(outstreets[street[s].tail], s)
           THEN /\ result' = Raised("cut_street", s, "ValueError")
                /\ thread' = CutEnded
                /\ UNCHANGED outstreets
           ELSE /\ outstreets' = [outstreets EXCEPT ![street[s].tail] = Remove(@, s)]
                /\ thread' = Cutting("137", s)
                /\ UNCHANGED result

\* street.head.instreets.remove(street), and cut_street returns
CutInstreets ==
    /\ thread.cut.pc = "137"
    /\ thread' = CutEnded
    /\ UNCHANGED <<network, network2, outstreets, street, q, location, path, moved>>
    /\ LET s == thread.cut.street
       IN  IF ~ Contains(instreets[street[s].head], s)
           THEN /\ result' = Raised("cut_street", s, "ValueError")
                /\ UNCHANGED instreets
           ELSE /\ instreets' = [instreets EXCEPT ![street[s].head] = Remove(@, s)]
                /\ result' = Returned("cut_street", s, <<>>)

NextThreads ==
    \/ /\ result.op \in {"no_cars", "Car"}
       /\ thread = NoCalls
       /\ \E p \in Paths : NewCar(p)
    \/ \E c \in Cars : MoveIndex(c)
    \/ MoveConnectivity
    \/ MoveFront
    \/ MoveGet
    \/ MovePut
    \/ MoveLocation
    \/ MoveLocationNone
    \/ MoveCarsRemove
    \/ \E s \in Streets : CutGuard(s)
    \/ CutStreets
    \/ CutOutstreets
    \/ CutInstreets

SpecThreads == Init /\ [][NextThreads]_vars

-----------------------------------------------------------------------------
(* Cars driven through the simple network: no street is cut, every path is   *)
(* connected and has no street twice, and the driver keeps calling move() on *)
(* the cars of network.cars.                                                 *)

\* Each street of the path follows the one before.
IsConnected(p) == \A i \in 1..(Len(p) - 1) : Follows(p[i], p[i + 1])

NoStreetTwice(p) == \A i \in DOMAIN p, j \in DOMAIN p : p[i] = p[j] => i = j

\* `for car in network.cars: car.move()`, in any order
Drive(c) ==
    /\ Contains(network.cars, c)
    /\ Move(c)

NextDrive ==
    \/ \E p \in Paths :
          /\ IsConnected(p)
          /\ NoStreetTwice(p)
          /\ NewCar(p)
    \/ \E c \in Cars : Drive(c)

\* The driver does not neglect a car for ever.
SpecDrive ==
    /\ Init
    /\ [][NextDrive]_vars
    /\ \A c \in 1..MaxPathEntries : WF_vars(Drive(c))

-----------------------------------------------------------------------------
(* StreetNetwork.square_lattice *)

\* Every lattice of at most MaxHeight x MaxWidth intersections is built, and
\* the lattices of the tests (3 x 3, 5 x 7, 6 x 5).
MaxHeight == 3

MaxWidth == 3

TestLattices == {<<3, 3>>, <<5, 7>>, <<6, 5>>}

LatticeSizes == ((1..MaxHeight) \X (1..MaxWidth)) \cup TestLattices

\* A weights argument: omitted (None), or a list of rows of numbers.
Omitted == [given |-> FALSE, rows |-> <<>>]

Given(m) == [given |-> TRUE, rows |-> m]

\* v * np.ones((r, c))
Ones(r, c, v) == [i \in 1..r |-> [j \in 1..c |-> v]]

\* A matrix whose entries are all different: 11, 12, ... in the first row,
\* 21, 22, ... in the second.
Graded(r, c) == [i \in 1..r |-> [j \in 1..c |-> 10 * i + j]]

\* `if x_weights is None: x_weights = np.ones(...)`
DefaultWeights(height, width, north, east, south, west) ==
    [north |-> IF north.given THEN north.rows ELSE Ones(height - 1, width, 1),
     east  |-> IF east.given THEN east.rows ELSE Ones(height, width - 1, 1),
     south |-> IF south.given THEN south.rows ELSE Ones(height - 1, width, 1),
     west  |-> IF west.given THEN west.rows ELSE Ones(height, width - 1, 1)]

\* h = height for the four matrices.
CheckedRowsHeight(name, height, width) == height

\* The h and w the check compares the rows of name_weights with.
CheckedRows(name, height, width) ==
    IF name \in {"north", "south"} THEN height - 1 ELSE height

CheckedCols(name, height, width) ==
    IF name \in {"north", "south"} THEN width ELSE width - 1

\* The check raises LatticeDimensionsError for name_weights.
DimensionsError(name, m, height, width) ==
    \/ Len(m) # CheckedRows(name, height, width)
    \/ \E r \in DOMAIN m : Len(m[r]) # CheckedCols(name, height, width)

\* The pairs (i, j) in the order of a list comprehension
\* `for i in range(rows) for j in range(cols)`; ij[1] is i and ij[2] is j.
Comprehension(rows, cols) ==
    IF rows <= 0 \/ cols <= 0 THEN <<>>
    ELSE [k \in 1..(rows * cols) |-> <<(k - 1) \div cols, (k - 1) % cols>>]

\* The Street constructions of square_lattice, in the order of the code:
\* south, north, east, west.
SouthStreets(height, width, weights) ==
    [k \in DOMAIN Comprehension(height - 1, width) |->
        LET ij == Comprehension(height - 1, width)[k]
        IN  << <<ij[1], ij[2]>>, <<ij[1] + 1, ij[2]>>, weights.south[ij[1] + 1][ij[2] + 1],
            <<"South", <<ij[1], ij[2]>>, <<ij[1] + 1, ij[2]>>>> >>]

NorthStreets(height, width, weights) ==
    [k \in DOMAIN Comprehension(height - 1, width) |->
        LET ij == Comprehension(height - 1, width)[k]
        IN  << <<ij[1] + 1, ij[2]>>, <<ij[1], ij[2]>>, weights.south[ij[1] + 1][ij[2] + 1],
            <<"North", <<ij[1] + 1, ij[2]>>, <<ij[1], ij[2]>>>> >>]

EastStreets(height, width, weights) ==
    [k \in DOMAIN Comprehension(height, width - 1) |->
        LET ij == Comprehension(height, width - 1)[k]
        IN  << <<ij[1], ij[2]>>, <<ij[1], ij[2] + 1>>, weights.east[ij[1] + 1][ij[2] + 1],
            <<"East", <<ij[1], ij[2]>>, <<ij[1], ij[2] + 1>>>> >>]

\* The west streets constructed from (i, j) to (i, j+1), as the east ones.
WestStreetsEastward(height, width, weights) ==
    [k \in DOMAIN Comprehension(height, width - 1) |->
        LET ij == Comprehension(height, width - 1)[k]
        IN  << <<ij[1], ij[2]>>, <<ij[1], ij[2] + 1>>, weights.west[ij[1] + 1][ij[2] + 1],
            <<"West", <<ij[1], ij[2] + 1>>, <<ij[1], ij[2]>>>> >>]

\* The west streets with the weights of the east ones.
WestStreetsEastWeights(height, width, weights) ==
    [k \in DOMAIN Comprehension(height, width - 1) |->
        LET ij == Comprehension(height, width - 1)[k]
        IN  << <<ij[1], ij[2] + 1>>, <<ij[1], ij[2]>>, weights.east[ij[1] + 1][ij[2] + 1],
            <<"West", <<ij[1], ij[2] + 1>>, <<ij[1], ij[2]>>>> >>]

WestStreets(height, width, weights) ==
    [k \in DOMAIN Comprehension(height, width - 1) |->
        LET ij == Comprehension(height, width - 1)[k]
        IN  << <<ij[1], ij[2] + 1>>, <<ij[1], ij[2]>>, weights.west[ij[1] + 1][ij[2] + 1],
            <<"West", <<ij[1], ij[2] + 1>>, <<ij[1], ij[2]>>>> >>]

\* One number too many, the first one that of the street before the list.
NumberedFromBefore(before, n) == [k \in 1..(n + 1) |-> before + k - 1]

\* The numbers of the streets of a list that holds n streets and was
\* constructed after `before` others.
Numbered(before, n) == [k \in 1..n |-> before + k]

\* The network square_lattice builds from weights of the right shapes: the
\* objects constructed and the fields of the StreetNetwork.
Lattice(height, width, weights) ==
    LET nodes == [i \in 1..height |-> [j \in 1..width |-> <<i - 1, j - 1>>]]
        souths == SouthStreets(height, width, weights)
        norths == NorthStreets(height, width, weights)
        easts == EastStreets(height, width, weights)
        wests == WestStreets(height, width, weights)
        south_streets == Numbered(0, Len(souths))
        north_streets == Numbered(Len(souths), Len(norths))
        east_streets == Numbered(Len(souths) + Len(norths), Len(easts))
        west_streets == Numbered(Len(souths) + Len(norths) + Len(easts), Len(wests))
    IN  [heap    |-> StreetInits(
                        NoIntersections({<<i, j>> : i \in 0..(height - 1),
                                                    j \in 0..(width - 1)}),
                        souths \o norths \o easts \o wests),
         network |-> StreetNetwork(
                        Comprehension(height, width),
                        north_streets \o east_streets \o south_streets \o west_streets,
                        <<>>, nodes,
                        north_streets, east_streets, south_streets, west_streets)]

SquareLattice(height, width, north, east, south, west) ==
    \E weights \in {DefaultWeights(height, width, north, east, south, west)} :
        /\ UNCHANGED <<thread, network2, location, path, moved>>
        /\ IF \E name \in {"north", "east", "south", "west"} :
                 DimensionsError(name, weights[name], height, width)
           THEN /\ result' = Raised("square_lattice",
                                    [height |-> height, width |-> width, north |-> north,
                                     east |-> east, south |-> south, west |-> west],
                                    "LatticeDimensionsError")
                /\ UNCHANGED <<network, outstreets, instreets, street, q>>
           ELSE \E built \in {Lattice(height, width, weights)} :
                /\ outstreets' = built.heap.outstreets
                /\ instreets' = built.heap.instreets
                /\ street' = built.heap.street
                /\ q' = built.heap.q
                /\ network' = built.network
                /\ result' = Returned("square_lattice",
                                      [height |-> height, width |-> width, north |-> north,
                                       east |-> east, south |-> south, west |-> west],
                                      <<>>)

\* The weights arguments tried for a matrix that should have rows x cols
\* entries: omitted, of the right shape, and of wrong shapes.
WeightsArguments(rows, cols) ==
    {Omitted}
    \cup {Given(Ones(rows, cols, v)) : v \in 1..2}
    \cup {Given(Graded(rows, cols))}
    \cup {Given(Ones(rows + 1, cols, 1)), Given(Ones(rows, cols + 1, 1))}
    \cup (IF rows >= 1 THEN {Given(Ones(rows - 1, cols, 1)),
                              Given([Ones(rows, cols, 1) EXCEPT ![rows] = Append(@, 1)])}
          ELSE {})

\* Before the call there is no network, no Intersection and no Street.
InitLattice ==
    /\ network = empty
    /\ network2 = empty
    /\ outstreets = <<>>
    /\ instreets = <<>>
    /\ street = <<>>
    /\ q = <<>>
    /\ location = <<>>
    /\ path = <<>>
    /\ moved = <<>>
    /\ thread = NoCalls
    /\ result = Returned("empty", <<>>, <<>>)

NextLattice ==
    /\ result.op = "empty"
    /\ \E size \in LatticeSizes :
          \E north \in WeightsArguments(size[1] - 1, size[2]),
             east \in WeightsArguments(size[1], size[2] - 1),
             south \in WeightsArguments(size[1] - 1, size[2]),
             west \in WeightsArguments(size[1], size[2] - 1) :
              SquareLattice(size[1], size[2], north, east, south, west)

SpecLattice == InitLattice /\ [][NextLattice]_vars

-----------------------------------------------------------------------------
(* Definitions the properties are stated with. *)

\* The last call was `op`.
Called(op) == result.op = op

\* The car has a next street on its path.
HasNextStreet(c) == NextIndex(c) # 0 /\ ~ AtLastStreet(c)

\* The car has a next street, and it is not an outgoing street of the head of
\* the car's current street.
Disconnected(c) ==
    /\ HasNextStreet(c)
    /\ ~ Contains(outstreets[street[location[c]].head], next_street(c))

\* The streets that are in the adjacency list of their tail.
LiveStreets == {s \in Streets : Contains(outstreets[street[s].tail], s)}

\* The least of a set of weights, some of which may be inf.
LeastOf(S) ==
    IF S \subseteq {Inf} THEN Inf
    ELSE CHOOSE x \in S \ {Inf} : \A y \in S \ {Inf} : x <= y

\* The least total weight of a directed walk of at most k streets from
\* source to each intersection; inf where there is none.
RelaxedOnce(d) ==
    [n \in Intersections |->
        LeastOf({d[n]} \cup {Plus(d[street[s].tail], street[s].weight) :
                                s \in {e \in LiveStreets : street[e].head = n}})]

RECURSIVE WalkWeights(_, _)
WalkWeights(source, k) ==
    IF k = 0 THEN [n \in Intersections |-> IF n = source THEN 0 ELSE Inf]
    ELSE CHOOSE d \in {RelaxedOnce(d0) : d0 \in {WalkWeights(source, k - 1)}} : TRUE

\* With weights >= 0 a walk of least weight needs no intersection twice.
MinWalkWeight(source, destination) ==
    WalkWeights(source, Cardinality(Intersections))[destination]

Reachable(source, destination) == MinWalkWeight(source, destination) # Inf

RECURSIVE TotalWeight(_)
TotalWeight(p) == IF p = <<>> THEN 0 ELSE street[p[1]].weight + TotalWeight(Tail(p))

\* p is a non-empty list of streets that walks from source to destination.
IsWalk(p, source, destination) ==
    /\ p # <<>>
    /\ \A i \in DOMAIN p : p[i] \in LiveStreets
    /\ street[p[1]].tail = source
    /\ street[p[Len(p)]].head = destination
    /\ \A i \in 1..(Len(p) - 1) : street[p[i]].head = street[p[i + 1]].tail

-----------------------------------------------------------------------------
(* C1 *)

\* C1: cut_street(street) on a street whose queue is not empty raises
\* CannotCutStreetError and leaves the network unchanged: the street stays in
\* network.streets, in its tail's outstreets and in its head's instreets, and
\* its queue keeps the same cars in the same order.
C1_CutOccupiedStreetRejected ==
    [][(result'.op = "cut_street" /\ q[result'.arg] # <<>>)
         => /\ result'.err = "CannotCutStreetError"
            /\ UNCHANGED <<network, outstreets, instreets, q>>]_vars

-----------------------------------------------------------------------------
(* C2 *)

\* C2: every queue is strict FIFO for every kind of move(), arrival on the
\* last street of the path included: when a move() by car c removes an entry
\* from a queue, the entry removed is c and c was the first entry.
C2_MoveDequeuesItself ==
    [][(result'.op = "move" /\ q' # q)
         => /\ q[location[result'.arg]] # <<>>
            /\ Head(q[location[result'.arg]]) = result'.arg]_vars

-----------------------------------------------------------------------------
(* C3 *)

\* C3: in every reachable state, a car is in the queue of a street if and
\* only if its location is that street, and then once; and it is in
\* network.cars if and only if its location is not None.
C3_CarInQueueOfItsLocation ==
    \A c \in Cars :
        /\ \A s \in Streets :
              /\ Contains(q[s], c) <=> location[c] = s
              /\ Count(q[s], c) <= 1
        /\ Contains(network.cars, c) <=> location[c] # None

-----------------------------------------------------------------------------
(* C4 *)

\* C4 as stated: a car that has a next street on its path and is not the
\* first entry of the queue of its current street gets NotAtFrontOfQueueError
\* from move(), and its location, the queues and network.cars are unchanged.
C4_NotFirstGetsOrderingError ==
    [][(/\ result'.op = "move"
        /\ HasNextStreet(result'.arg)
        /\ (q[location[result'.arg]] = <<>>
            \/ Head(q[location[result'.arg]]) # result'.arg))
         => /\ result'.err = "NotAtFrontOfQueueError"
            /\ UNCHANGED <<location, q, network>>]_vars

\* C4 as amended: a car whose next street is an outgoing street of the head of
\* its current street gets NotAtFrontOfQueueError from every move() made while
\* another car is the first entry of the queue of its current street, with
\* its location, the queues and network.cars unchanged; a move() made when the
\* car is the first entry succeeds and places the car on its next street, at
\* the back of its queue.
C4_BehindAnotherCarGetsOrderingError ==
    [][(/\ result'.op = "move"
        /\ HasNextStreet(result'.arg)
        /\ ~ Disconnected(result'.arg)
        /\ q[location[result'.arg]] # <<>>)
         => IF Head(q[location[result'.arg]]) # result'.arg
            THEN /\ result'.err = "NotAtFrontOfQueueError"
                 /\ UNCHANGED <<location, q, network>>
            ELSE /\ result'.err = "None"
                 /\ location'[result'.arg] = next_street(result'.arg)
                 /\ q'[next_street(result'.arg)][Len(q'[next_street(result'.arg)])]
                       = result'.arg
                 /\ ~ Contains(q'[location[result'.arg]], result'.arg)
                       \/ location[result'.arg] = next_street(result'.arg)]_vars

\* A car, behind another car, has just been refused with
\* NotAtFrontOfQueueError.
C4_Witness ==
    /\ Called("move")
    /\ result.err = "NotAtFrontOfQueueError"
    /\ Contains(q[location[result.arg]], result.arg)
    /\ Head(q[location[result.arg]]) # result.arg

-----------------------------------------------------------------------------
(* C5 *)

\* C5: move() raises DisconnectedPathError whenever the car's next street is
\* not one of the outgoing streets of the head of its current street (it never
\* left that intersection, or it was cut), and the failing call changes
\* nothing; once that is so it stays so, so every repeated call fails the same
\* way, and a car with path [AB, CB] never leaves AB.
C5_DisconnectedMoveFails ==
    [][/\ (result'.op = "move" /\ Disconnected(result'.arg))
            => /\ result'.err = "DisconnectedPathError"
               /\ UNCHANGED <<network, outstreets, instreets, street, q, location, path>>
       /\ \A c \in Cars : Disconnected(c) => Disconnected(c)'
       /\ \A c \in Cars' : path'[c] = <<AB, CB>> => location'[c] = AB]_vars

\* A move() has just failed with DisconnectedPathError because the next
\* street, which left the head of the car's street, has been cut.
C5_Witness ==
    /\ Called("move")
    /\ result.err = "DisconnectedPathError"
    /\ street[next_street(result.arg)].tail = street[location[result.arg]].head
    /\ ~ Contains(network.streets, next_street(result.arg))

-----------------------------------------------------------------------------
(* C6 *)

\* C6: for weights >= 0 and distinct source and destination with destination
\* reachable from source, shortest_path returns a non-empty list of streets
\* that walks from source to destination and whose total weight is the least
\* total weight of the directed walks from source to destination.
C6_ShortestPathIsShortest ==
    (/\ Called("shortest_path")
     /\ result.arg[1] # result.arg[2]
     /\ Reachable(result.arg[1], result.arg[2]))
        => /\ result.err = "None"
           /\ IsWalk(result.ret, result.arg[1], result.arg[2])
           /\ TotalWeight(result.ret) = MinWalkWeight(result.arg[1], result.arg[2])

\* shortest_path has returned a path of two streets or more although a street
\* leads from the source to the destination directly: the direct street
\* weighs more.
C6_Witness ==
    /\ Called("shortest_path")
    /\ result.err = "None"
    /\ Len(result.ret) >= 2
    /\ \E s \in LiveStreets :
          /\ street[s].tail = result.arg[1]
          /\ street[s].head = result.arg[2]
          /\ street[s].weight > TotalWeight(result.ret)

-----------------------------------------------------------------------------
(* C7 *)

\* The street of the network from tail to head, where there is one.
TheStreet(tail, head) == CHOOSE s \in StreetsBetween(tail, head) : TRUE

\* C7: on the 8-node graph of the test, shortest_path(A, H) is
\* [AD, DC, CE, EH] with the CH of weight 19 (and with CH cut), and once CH is
\* cut and constructed again with weight 17 it is [AD, DC, CH]; with weight 18,
\* where both paths weigh 50, it is still [AD, DC, CH]: the way relaxed first
\* is kept, a tie never replaces it.
C7_TieKeepsFirstRelaxed ==
    (Called("shortest_path") /\ result.arg = <<"A", "H">>)
        => /\ result.err = "None"
           /\ IF /\ StreetsBetween("C", "H") # {}
                 /\ street[TheStreet("C", "H")].weight \in {17, 18}
              THEN result.ret = <<TheStreet("A", "D"), TheStreet("D", "C"),
                                  TheStreet("C", "H")>>
              ELSE result.ret = <<TheStreet("A", "D"), TheStreet("D", "C"),
                                  TheStreet("C", "E"), TheStreet("E", "H")>>

\* shortest_path(A, H) has returned [AD, DC, CH] with the CH of weight 18 that
\* replaced a CH of weight 17.
C7_Witness ==
    /\ Called("shortest_path")
    /\ result.arg = <<"A", "H">>
    /\ Len(street) = TestStreets
    /\ street[TestStreets - 1].weight = 17
    /\ StreetsBetween("C", "H") = {TestStreets}
    /\ street[TestStreets].weight = 18
    /\ result.ret = <<TheStreet("A", "D"), TheStreet("D", "C"), TestStreets>>
    /\ TotalWeight(result.ret)
          = TotalWeight(<<TheStreet("A", "D"), TheStreet("D", "C"),
                          TheStreet("C", "E"), TheStreet("E", "H")>>)

-----------------------------------------------------------------------------
(* C8 *)

\* C8: shortest_path raises DisconnectedPathError, and returns no path and
\* raises nothing else, whenever the destination is not reachable from the
\* source along directed streets and whenever source = destination, also
\* when a directed cycle leads through the source.
C8_NoRouteRaises ==
    (/\ Called("shortest_path")
     /\ \/ result.arg[1] = result.arg[2]
        \/ ~ Reachable(result.arg[1], result.arg[2]))
        => /\ result.err = "DisconnectedPathError"
           /\ result.ret = <<>>

\* shortest_path(source, source) has raised DisconnectedPathError in a graph
\* with a directed cycle through source, and there are streets into
\* intersections that cannot be reached from it.
C8_Witness ==
    /\ Called("shortest_path")
    /\ result.arg[1] = result.arg[2]
    /\ result.err = "DisconnectedPathError"
    /\ \E s \in LiveStreets :
          /\ street[s].tail = result.arg[1]
          /\ Reachable(street[s].head, result.arg[1])

\* shortest_path has raised DisconnectedPathError for a destination that has
\* a street into it, from an intersection that the source does not reach.
C8_WitnessUnreachable ==
    /\ Called("shortest_path")
    /\ result.arg[1] # result.arg[2]
    /\ result.err = "DisconnectedPathError"
    /\ \E s \in LiveStreets : street[s].head = result.arg[2]

-----------------------------------------------------------------------------
(* C9 *)

\* The weights argument is omitted, or has rows x cols entries.
RightShape(weights, rows, cols) ==
    \/ ~ weights.given
    \/ /\ Len(weights.rows) = rows
       /\ \A r \in DOMAIN weights.rows : Len(weights.rows[r]) = cols

\* north/south are (height-1) x width and east/west height x (width-1).
RightShapes(arg) ==
    /\ RightShape(arg.north, arg.height - 1, arg.width)
    /\ RightShape(arg.south, arg.height - 1, arg.width)
    /\ RightShape(arg.east, arg.height, arg.width - 1)
    /\ RightShape(arg.west, arg.height, arg.width - 1)

\* Nothing has been constructed: no Intersection, no Street, no network.
NothingConstructed ==
    /\ Intersections = {}
    /\ instreets = <<>>
    /\ street = <<>>
    /\ q = <<>>
    /\ network = empty

\* C9: square_lattice called with a weight matrix of the wrong shape raises
\* LatticeDimensionsError before any Intersection or Street is constructed, so
\* that no adjacency list and no network is created or changed; with the four
\* matrices of the right shape, or omitted, it does not raise it.
C9_WrongShapeRaisesBeforeConstruction ==
    Called("square_lattice")
        => /\ result.err = "LatticeDimensionsError" <=> ~ RightShapes(result.arg)
           /\ result.err = "LatticeDimensionsError" => NothingConstructed
           /\ result.err = "None" => Len(network.intersections) > 0

\* square_lattice has raised LatticeDimensionsError for a west_weights with a
\* column too many, the other three matrices being ones of the right shape, as
\* in test_grid_with_weights.
C9_Witness ==
    /\ Called("square_lattice")
    /\ result.err = "LatticeDimensionsError"
    /\ result.arg.height = 6 /\ result.arg.width = 5
    /\ result.arg.north = Given(Ones(5, 5, 1))
    /\ result.arg.east = Given(Ones(6, 4, 1))
    /\ result.arg.south = Given(Ones(5, 5, 1))
    /\ result.arg.west = Given(Ones(6, 5, 1))
    /\ NothingConstructed

-----------------------------------------------------------------------------
(* C10 *)

\* The number of outgoing streets of an intersection.
Degree(n) == Len(outstreets[n])

Corner(n, h, w) == n[1] \in {0, h - 1} /\ n[2] \in {0, w - 1}

Boundary(n, h, w) == n[1] \in {0, h - 1} \/ n[2] \in {0, w - 1}

Abs(x) == IF x < 0 THEN -x ELSE x

\* Grid-adjacent: one step apart in a row or in a column.
Adjacent(a, b) == Abs(a[1] - b[1]) + Abs(a[2] - b[2]) = 1

GridNodes(h, w) == (0..(h - 1)) \X (0..(w - 1))

\* The streets of network.streets from a to b, counted with multiplicity.
StreetCount(a, b) ==
    Cardinality({k \in DOMAIN network.streets :
                    /\ street[network.streets[k]].tail = a
                    /\ street[network.streets[k]].head = b})

\* h*w intersections, each with as many outstreets as instreets; every street
\* joins two adjacent intersections and each adjacent pair is joined by one
\* street in each direction; the numbers of the tests.
LatticeShape(h, w) ==
    /\ Len(network.intersections) = h * w
    /\ {network.intersections[k] : k \in DOMAIN network.intersections} = GridNodes(h, w)
    /\ Intersections = GridNodes(h, w)
    /\ \A n \in GridNodes(h, w) : Len(outstreets[n]) = Len(instreets[n])
    /\ \A k \in DOMAIN network.streets :
          Adjacent(street[network.streets[k]].tail, street[network.streets[k]].head)
    /\ \A a \in GridNodes(h, w), b \in GridNodes(h, w) :
          /\ Adjacent(a, b) => StreetCount(a, b) = 1
          /\ StreetCount(a, b) = Count(outstreets[a],
                                       IF StreetCount(a, b) = 0 THEN None
                                       ELSE TheStreet(a, b))
    /\ (h = 3 /\ w = 3) => Len(network.intersections) = 9 /\ Len(network.streets) = 24
    /\ (h = 5 /\ w = 7) => Len(network.intersections) = 35 /\ Len(network.streets) = 116

\* Corners have degree 2, the other boundary intersections 3, interior ones 4.
LatticeDegrees(h, w) ==
    \A n \in GridNodes(h, w) :
        Degree(n) = IF Corner(n, h, w) THEN 2 ELSE IF Boundary(n, h, w) THEN 3 ELSE 4

\* C10 as stated: for square_lattice(h, w) with h, w >= 1 the network has h*w
\* intersections, each with as many outstreets as instreets; corners have
\* degree 2, the other boundary intersections 3, interior ones 4; every street
\* joins two adjacent intersections and each adjacent pair is joined by one
\* street in each direction (3x3: 9 and 24, 5x7: 35 and 116).
C10_LatticeShapeAndDegrees ==
    (Called("square_lattice") /\ result.err = "None")
        => /\ LatticeShape(result.arg.height, result.arg.width)
           /\ LatticeDegrees(result.arg.height, result.arg.width)

\* C10 as amended: the same, with the degrees 2, 3 and 4 of corners, other
\* boundary intersections and interior ones for h, w >= 2 only (in a lattice of
\* one row or one column the end intersections have degree 1 and the others
\* 2, and the only intersection of the 1x1 lattice has degree 0).
C10_LatticeShapeAndDegreesFrom2x2 ==
    (Called("square_lattice") /\ result.err = "None")
        => /\ LatticeShape(result.arg.height, result.arg.width)
           /\ (result.arg.height >= 2 /\ result.arg.width >= 2)
                 => LatticeDegrees(result.arg.height, result.arg.width)
           /\ (result.arg.height = 1 /\ result.arg.width >= 2)
                 => \A n \in Intersections :
                       Degree(n) = IF n[2] \in {0, result.arg.width - 1} THEN 1 ELSE 2
           /\ (result.arg.width = 1 /\ result.arg.height >= 2)
                 => \A n \in Intersections :
                       Degree(n) = IF n[1] \in {0, result.arg.height - 1} THEN 1 ELSE 2
           /\ (result.arg.height = 1 /\ result.arg.width = 1)
                 => \A n \in Intersections : Degree(n) = 0

\* The 5 x 7 lattice has been built: 35 intersections and 116 streets, with
\* corners, other boundary intersections and interior ones.
C10_Witness ==
    /\ Called("square_lattice")
    /\ result.err = "None"
    /\ result.arg.height = 5 /\ result.arg.width = 7
    /\ Len(network.streets) = 116
    /\ \E n \in Intersections : Degree(n) = 4
    /\ \E n \in Intersections : Degree(n) = 3

-----------------------------------------------------------------------------
(* C11 *)

\* The adjacent pairs of a height x width grid, each counted once:
\* h*(w-1) in the rows and (h-1)*w in the columns.
AdjacentPairs(h, w) == h * (w - 1) + (h - 1) * w

\* No street is listed twice in network.streets.
StreetsListedOnce ==
    \A k \in DOMAIN network.streets, l \in DOMAIN network.streets :
        network.streets[k] = network.streets[l] => k = l

\* C11 as stated: for any square_lattice(h, w) the number of streets in
\* network.streets is 4*(h*(w-1) + (h-1)*w), counting both directions.
C11_FourStreetsPerAdjacentPair ==
    (Called("square_lattice") /\ result.err = "None")
        => Len(network.streets) = 4 * AdjacentPairs(result.arg.height, result.arg.width)

\* C11 as amended: for any square_lattice(h, w) the number of streets in
\* network.streets is 2*(h*(w-1) + (h-1)*w), one street in each direction for
\* each adjacent pair, every street constructed being listed once.
C11_TwoStreetsPerAdjacentPair ==
    (Called("square_lattice") /\ result.err = "None")
        => /\ Len(network.streets) = 2 * AdjacentPairs(result.arg.height, result.arg.width)
           /\ Len(network.streets) = Len(street)
           /\ StreetsListedOnce
           /\ Len(network.north_streets) + Len(network.east_streets)
                 + Len(network.south_streets) + Len(network.west_streets)
                 = Len(network.streets)

\* The 3 x 3 lattice has been built: 12 adjacent pairs and 24 streets.
C11_Witness ==
    /\ Called("square_lattice")
    /\ result.err = "None"
    /\ result.arg.height = 3 /\ result.arg.width = 3
    /\ AdjacentPairs(3, 3) = 12
    /\ Len(network.streets) = 24

-----------------------------------------------------------------------------
(* C12, C13 *)

\* The matrices the call has used: those given, and ones for those omitted.
UsedWeights ==
    DefaultWeights(result.arg.height, result.arg.width, result.arg.north,
                   result.arg.east, result.arg.south, result.arg.west)

\* The direction of a street of the lattice, row 0 being the north and column
\* 0 the west.
Direction(s) ==
    IF street[s].head[1] < street[s].tail[1] THEN "north"
    ELSE IF street[s].head[1] > street[s].tail[1] THEN "south"
    ELSE IF street[s].head[2] > street[s].tail[2] THEN "east"
    ELSE "west"

\* (i, j) for the street between (i, j) and (i+1, j), or (i, j) and (i, j+1):
\* the end of the street that is further north or west.
MatrixEntry(s) ==
    IF Direction(s) \in {"north", "west"} THEN street[s].head ELSE street[s].tail

\* name_weights[i][j] for the street s.
WeightIn(name, s) == UsedWeights[name][MatrixEntry(s)[1] + 1][MatrixEntry(s)[2] + 1]

\* The street of the lattice from a to b.
LatticeStreet(a, b) ==
    CHOOSE s \in Streets : street[s].tail = a /\ street[s].head = b

C13_EachDirectionOwnMatrix ==
    (Called("square_lattice") /\ result.err = "None")
        => /\ \A s \in Streets : street[s].weight = WeightIn(Direction(s), s)
           /\ (~ result.arg.north.given /\ ~ result.arg.east.given
                 /\ ~ result.arg.south.given /\ ~ result.arg.west.given)
                 => \A s \in Streets : street[s].weight = 1

-----------------------------------------------------------------------------
(* C14, C15 *)

\* new is old without one occurrence of x, the others in their order.
RemovedOne(old, new, x) ==
    \E i \in DOMAIN old :
        /\ old[i] = x
        /\ new = SubSeq(old, 1, i - 1) \o SubSeq(old, i + 1, Len(old))

\* The step is a call of cut_street on the first network.
CutCall == result'.op = "cut_street"

\* The step is a call of cut_street on the second network.
CutCall2 == result'.op = "network2.cut_street"

\* The call has removed the street s from the three lists, one occurrence from
\* each, or from none of them.
AllThreeOrNone(streets, streetsAfter, s) ==
    \/ /\ result'.err = "None"
       /\ RemovedOne(streets, streetsAfter, s)
       /\ RemovedOne(outstreets[street[s].tail], outstreets'[street[s].tail], s)
       /\ RemovedOne(instreets[street[s].head], instreets'[street[s].head], s)
    \/ /\ result'.err # "None"
       /\ streetsAfter = streets
       /\ outstreets'[street[s].tail] = outstreets[street[s].tail]
       /\ instreets'[street[s].head] = instreets[street[s].head]

\* What a call of cut_street on the street s leaves alone.
CutFrame(s) ==
    /\ UNCHANGED <<street, q, location, path>>
    /\ \A n \in Intersections : n # street[s].tail => outstreets'[n] = outstreets[n]
    /\ \A n \in Intersections : n # street[s].head => instreets'[n] = instreets[n]
    /\ [network' EXCEPT !.streets = network.streets] = network
    /\ [network2' EXCEPT !.streets = network2.streets] = network2

\* C14: a call of cut_street(e) removes one occurrence of e from the streets
\* of the network it is called on, from e.tail.outstreets and from
\* e.head.instreets, all three when it returns and none when it fails, and
\* leaves unchanged every other street, the order of the streets that remain
\* in the three lists, every queue, network.cars, network.intersections and
\* the streets of the other network.
C14_CutRemovesFromAllThreeOrNone ==
    [][/\ CutCall => /\ AllThreeOrNone(network.streets, network'.streets, result'.arg)
                     /\ CutFrame(result'.arg)
                     /\ network2' = network2
       /\ CutCall2 => /\ AllThreeOrNone(network2.streets, network2'.streets, result'.arg)
                      /\ CutFrame(result'.arg)
                      /\ network' = network]_vars

\* The street is in the outstreets of its tail once and in the instreets of
\* its head once.
Joined(s) ==
    /\ Count(outstreets[street[s].tail], s) = 1
    /\ Count(instreets[street[s].head], s) = 1

\* The street is in no adjacency list.
Disjoined(s) ==
    \A n \in Intersections : ~ Contains(outstreets[n], s) /\ ~ Contains(instreets[n], s)

\* The list holds its streets in the order of their construction.
InConstructionOrder(seq) ==
    \A i \in DOMAIN seq, j \in DOMAIN seq : i < j => seq[i] < seq[j]

\* Every street is joined or disjoined, and in the lists of no intersection
\* but its tail and its head; every list is in construction order.
AdjacencyLists ==
    /\ \A s \in Streets :
          /\ Joined(s) \/ Disjoined(s)
          /\ \A n \in Intersections :
                /\ Contains(outstreets[n], s) => n = street[s].tail
                /\ Contains(instreets[n], s) => n = street[s].head
    /\ \A n \in Intersections :
          InConstructionOrder(outstreets[n]) /\ InConstructionOrder(instreets[n])

\* A street is joined when it is constructed, stays joined until a call of
\* cut_street on it returns, is disjoined when such a call has returned, and
\* stays disjoined.
AdjacencySteps ==
    /\ \A s \in DOMAIN street' : s \notin Streets => Joined(s)'
    /\ \A s \in Streets :
          /\ Disjoined(s) => Disjoined(s)'
          /\ (Joined(s) /\ ~ Joined(s)')
                => (CutCall \/ CutCall2) /\ result'.arg = s /\ result'.err = "None"
          /\ ((CutCall \/ CutCall2) /\ result'.arg = s /\ result'.err = "None")
                => Disjoined(s)'

\* C15: after any sequence of Street constructions and cut_street calls, every
\* street that was constructed and not cut is once in the outstreets of its
\* tail, once in the instreets of its head and in no other intersection's
\* lists, each list holding its streets in construction order; every street
\* that was cut is in no adjacency list.
C15_AdjacencyListsHoldTheUncutStreets ==
    []AdjacencyLists /\ [][AdjacencySteps]_vars

\* CB has been cut and a second street from C to B constructed: the instreets
\* of B hold AB and the new street, in this order.
C15_Witness ==
    /\ Len(street) = 4
    /\ street[4].tail = "C" /\ street[4].head = "B"
    /\ Disjoined(CB)
    /\ Joined(4)
    /\ instreets["B"] = <<AB, 4>>
    /\ outstreets["C"] = <<4>>

-----------------------------------------------------------------------------
(* C16 *)

\* C16: Car(path, network) sets the car's location to path[0], appends the car
\* at the back of path[0]'s queue, behind every car already there, and adds
\* the car to network.cars; it changes no other queue, no other car's location
\* or path and no part of the graph.
C16_NewCarJoinsBackOfFirstQueue ==
    [][result'.op = "Car"
          => /\ result'.arg \notin Cars
             /\ location' = Append(location, path'[result'.arg][1])
             /\ \A c \in Cars : path'[c] = path[c]
             /\ q' = [q EXCEPT ![path'[result'.arg][1]] = Append(@, result'.arg)]
             /\ network' = [network EXCEPT !.cars = Append(@, result'.arg)]
             /\ UNCHANGED <<network2, outstreets, instreets, street>>]_vars

\* A car has just been created on a street where another car was queueing:
\* it is the last of the queue, behind the other.
C16_Witness ==
    /\ Called("Car")
    /\ location[result.arg] = path[result.arg][1]
    /\ Len(q[location[result.arg]]) >= 2
    /\ q[location[result.arg]][Len(q[location[result.arg]])] = result.arg
    /\ Head(q[location[result.arg]]) # result.arg
    /\ Contains(network.cars, result.arg)

-----------------------------------------------------------------------------
(* C17 *)

\* The car is on path[i], i counted from 1: i - 1 calls of move() by the car
\* have returned, and its location is the i-th street of its path.
OnPath(c, i) ==
    /\ i \in DOMAIN path[c]
    /\ moved[c] = i - 1
    /\ path[c][i] = location[c]

\* C17: a successful move() of a car that is on path[i], i not the last index,
\* takes the car from the front of path[i]'s queue to the back of path[i+1]'s
\* queue and makes path[i+1] its location; the order of the other cars in both
\* queues, every other queue, every other car's location, network.cars and
\* the graph are unchanged.
C17_MoveAdvancesOneEdge ==
    [][\A c \in Cars, i \in 1..MaxTourLen :
          (/\ result' = Returned("move", c, <<>>)
           /\ OnPath(c, i)
           /\ i < Len(path[c]))
             => /\ Head(q[path[c][i]]) = c
                /\ location' = [location EXCEPT ![c] = path[c][i + 1]]
                /\ q' = [[q EXCEPT ![path[c][i]] = Tail(@)]
                            EXCEPT ![path[c][i + 1]] = Append(@, c)]
                /\ UNCHANGED <<network, network2, outstreets, instreets, street, path>>]_vars

\* C17 as amended: the same for a car whose path does not contain the same
\* street twice, which is what move() assumes.
C17_MoveAdvancesOneEdgeOnPathWithoutRepeat ==
    [][\A c \in Cars, i \in 1..MaxTourLen :
          (/\ result' = Returned("move", c, <<>>)
           /\ NoStreetTwice(path[c])
           /\ OnPath(c, i)
           /\ i < Len(path[c]))
             => /\ Head(q[path[c][i]]) = c
                /\ location' = [location EXCEPT ![c] = path[c][i + 1]]
                /\ q' = [[q EXCEPT ![path[c][i]] = Tail(@)]
                            EXCEPT ![path[c][i + 1]] = Append(@, c)]
                /\ moved'[c] = i
                /\ UNCHANGED <<network, network2, outstreets, instreets, street, path>>]_vars

\* A car whose path has no street twice has just moved from the front of a
\* queue to the back of a queue where another car waits before it.
C17_Witness ==
    /\ Called("move")
    /\ result.err = "None"
    /\ NoStreetTwice(path[result.arg])
    /\ moved[result.arg] >= 1
    /\ moved[result.arg] < Len(path[result.arg])
    /\ location[result.arg] = path[result.arg][moved[result.arg] + 1]
    /\ Len(q[location[result.arg]]) >= 2
    /\ q[location[result.arg]][Len(q[location[result.arg]])] = result.arg

-----------------------------------------------------------------------------
(* C18 *)

\* After k calls of move() that have returned the car is on path[k], and after
\* len(path) of them it has departed; no more of them return.
LocationByMoves(c) ==
    /\ moved[c] <= Len(path[c])
    /\ location[c] = IF moved[c] < Len(path[c]) THEN path[c][moved[c] + 1] ELSE None

\* C18: a car whose path has no street twice and has each street following
\* the one before is on path[k] after exactly k successful calls of move() and
\* has departed after the n-th, n = len(path), whatever the other cars do in
\* between: its location takes the values path[0], ..., path[n-1], None in
\* this order, and changes by a successful move() of the car and by nothing
\* else.
C18_LocationFollowsPath ==
    [][\A c \in Cars' :
          (NoStreetTwice(path'[c]) /\ IsConnected(path'[c]))
             => /\ LocationByMoves(c)'
                /\ c \in Cars
                      => /\ moved'[c] \in {moved[c], moved[c] + 1}
                         /\ moved'[c] # moved[c] <=> result' = Returned("move", c, <<>>)
                         /\ location'[c] # location[c] <=> moved'[c] # moved[c]]_vars

\* A car with the path [AB, BC] has just departed, its second successful
\* move(), while another car is in the network.
C18_Witness ==
    /\ Called("move")
    /\ result.err = "None"
    /\ path[result.arg] = <<AB, BC>>
    /\ moved[result.arg] = 2
    /\ location[result.arg] = None
    /\ \E c \in Cars : c # result.arg /\ location[c] # None

-----------------------------------------------------------------------------
(* C19 *)

\* The car is not the first of the queue of its street.
NotFirst(c) == q[location[c]] = <<>> \/ Head(q[location[c]]) # c

\* C19: move() checks the connectivity before the place in the queue: a car
\* that has a next street, is not first in the queue of its street, and whose
\* next street is not an outgoing street of the head of its street gets
\* DisconnectedPathError and never NotAtFrontOfQueueError.
C19_ConnectivityCheckedFirst ==
    [][(/\ result'.op = "move"
        /\ HasNextStreet(result'.arg)
        /\ NotFirst(result'.arg)
        /\ Disconnected(result'.arg))
          => /\ result'.err = "DisconnectedPathError"
             /\ result'.err # "NotAtFrontOfQueueError"]_vars

\* A car that queues behind another car, with a next street that does not
\* leave the head of its street, has just got DisconnectedPathError.
C19_Witness ==
    /\ Called("move")
    /\ result.err = "DisconnectedPathError"
    /\ Disconnected(result.arg)
    /\ Contains(q[location[result.arg]], result.arg)
    /\ Head(q[location[result.arg]]) # result.arg

-----------------------------------------------------------------------------
(* C20 *)

\* C20: with no street cut and every path connected and without a street
\* twice, if the driver keeps calling move() on every car of network.cars,
\* every car departs, and network.cars and every queue end up empty.
C20_EveryCarDeparts ==
    /\ \A c \in 1..MaxPathEntries :
          (c \in Cars) ~> (c \in Cars /\ location[c] = None)
    /\ []<>(network.cars = <<>> /\ \A s \in Streets : q[s] = <<>>)

-----------------------------------------------------------------------------
(* C21 *)

\* The street is in none of the three lists that cut_street removes it from.
CutOff(s) ==
    /\ ~ Contains(network.streets, s)
    /\ ~ Contains(outstreets[street[s].tail], s)
    /\ ~ Contains(instreets[street[s].head], s)

\* C21: however the lines of cut_street(s) and of a move() whose next street
\* is s follow one another, no state is reached where s has been removed from
\* the network and a car is in the queue of s or has s as its location.
C21_NoCarOnStreetCutOff ==
    \A s \in Streets :
       CutOff(s) => /\ q[s] = <<>>
                    /\ \A c \in Cars : location[c] # s

-----------------------------------------------------------------------------
(* C22 *)

\* The car has departed: it has left network.cars.
Departed(c) == ~ Contains(network.cars, c)

\* C22: departure is final: a car has departed exactly when its location is
\* None, and a move() call on a car that has departed changes no state: it
\* takes no car from any queue, puts the car in no queue and not in
\* network.cars, and its location stays None.
C22_DepartureIsFinal ==
    [][\A c \in Cars :
          /\ Departed(c) <=> location[c] = None
          /\ (result'.op = "move" /\ result'.arg = c /\ Departed(c))
                => /\ result'.err # "None"
                   /\ location'[c] = None
                   /\ UNCHANGED <<network, network2, outstreets, instreets, street,
                                  q, location, path, moved>>]_vars

\* move() has just been called on a car that has departed, while another car
\* is in a queue.
C22_Witness ==
    /\ Called("move")
    /\ location[result.arg] = None
    /\ Departed(result.arg)
    /\ result.err = "ValueError"
    /\ \E s \in Streets : q[s] # <<>>

-----------------------------------------------------------------------------
(* C23 *)

\* Every street of the path after the first is an outgoing street of the head
\* of the street before.
LeavesHeadOfStreetBefore(p) ==
    \A i \in 1..(Len(p) - 1) : Contains(outstreets[street[p[i]].head], p[i + 1])

\* C23: a path that shortest_path returns has no street twice and each of its
\* streets after the first is in the outstreets of the head of the street
\* before; a car created with it, in a graph that does not change afterwards,
\* never gets DisconnectedPathError from move(), is on the k-th street of the
\* path after k successful moves and has departed after len(path) of them.
C23_RoutesCanBeDriven ==
    /\ (Called("shortest_path") /\ result.err = "None")
          => /\ result.ret # <<>>
             /\ NoStreetTwice(result.ret)
             /\ LeavesHeadOfStreetBefore(result.ret)
    /\ \A c \in Cars :
          /\ NoStreetTwice(path[c])
          /\ LeavesHeadOfStreetBefore(path[c])
          /\ LocationByMoves(c)
    /\ Called("move") => result.err # "DisconnectedPathError"

\* A car created with the path [AD, DC, CE, EH] that shortest_path(A, H)
\* returns in the graph of test_shortest_path has just departed, at its
\* fourth successful move().
C23_Witness ==
    /\ Called("move")
    /\ result.err = "None"
    /\ Len(path[result.arg]) = 4
    /\ street[path[result.arg][1]].tail = "A"
    /\ street[path[result.arg][4]].head = "H"
    /\ moved[result.arg] = 4
    /\ location[result.arg] = None

-----------------------------------------------------------------------------
(* Cars on the simple network. *)

Next ==
    \/ \E p \in Paths : NewCar(p)
    \/ \E c \in Cars : Move(c)
    \/ \E s \in Streets : CutStreet(s)

Spec == Init /\ [][Next]_vars

====
